---- MODULE Spec2Model ----
(***************************************************************************)
(* Model of meshcat_html_importer/animation/keyframe_converter.py.         *)
(*                                                                         *)
(* The module is a set of pure functions over keyframe lists.  Each        *)
(* function is an operator computed the way the code computes it; the      *)
(* state machine draws the arguments in Init and has one action per        *)
(* public call.                                                            *)
(*                                                                         *)
(* Numbers.  Python floats are modelled by exact rationals <<n, d>> in     *)
(* lowest terms with d > 0.  A rotation component is a real of the form    *)
(* sgn * sqrt(n / d), written <<sgn, n, d>>, because _nlerp_quat divides   *)
(* by a square root; a rational p/q is the surd <<sign(p), p*p, q*q>>.     *)
(* None is the empty tuple.  A raised ZeroDivisionError is the result      *)
(* [err |-> TRUE, val |-> <<>>].                                           *)
(***************************************************************************)
EXTENDS Integers, Sequences, FiniteSets, TLC

VARIABLES nodes, recording_fps, target_fps, qa, qb, qt,
          pc, node, start_frame, downsample, ret

vars == <<nodes, recording_fps, target_fps, qa, qb, qt,
          pc, node, start_frame, downsample, ret>>

\* ------------------------------------------------------------------ bounds
MaxLen == 2
MaxTime == 3
MaxRate == 3
MaxNodes == 2
MaxSceneTime == 2

\* ------------------------------------------------------------- arithmetic
None == <<>>

Abs(x) == IF x < 0 THEN -x ELSE x

Sign(x) == IF x < 0 THEN -1 ELSE IF x > 0 THEN 1 ELSE 0

RECURSIVE GCD(_, _)
GCD(a, b) == IF b = 0 THEN a ELSE GCD(b, a % b)

Rat(n, d) ==
    LET g == GCD(Abs(n), Abs(d))
        s == IF d < 0 THEN -1 ELSE 1
    IN  <<(s * n) \div g, (s * d) \div g>>

R(n) == <<n, 1>>

RAdd(a, b) == Rat(a[1] * b[2] + b[1] * a[2], a[2] * b[2])

RSub(a, b) == Rat(a[1] * b[2] - b[1] * a[2], a[2] * b[2])

RMul(a, b) == Rat(a[1] * b[1], a[2] * b[2])

RDiv(a, b) == Rat(a[1] * b[2], a[2] * b[1])

RLt(a, b) == a[1] * b[2] < b[1] * a[2]

RLe(a, b) == a[1] * b[2] <= b[1] * a[2]

RMax(a, b) == IF RLt(a, b) THEN b ELSE a

\* int(x): truncation toward zero
Trunc(q) == IF q[1] >= 0 THEN q[1] \div q[2] ELSE -((-q[1]) \div q[2])

\* round(x): Python 3 rounds to nearest, ties to even
Round(q) ==
    LET fl == q[1] \div q[2]
        twice == 2 * (q[1] - fl * q[2])
    IN  IF twice < q[2] THEN fl
        ELSE IF twice > q[2] THEN fl + 1
        ELSE IF fl % 2 = 0 THEN fl ELSE fl + 1

ISqrt(n) == CHOOSE k \in 0..n : k * k = n

\* the surd of a rational, and the rational value of a rational surd
Surd(q) == <<Sign(q[1]), q[1] * q[1], q[2] * q[2]>>

RootOf(s) == <<s[1] * ISqrt(s[2]), ISqrt(s[3])>>

\* x / sqrt(l2) for rationals x and l2 > 0
SurdDiv(x, l2) ==
    LET sq == RDiv(RMul(x, x), l2) IN <<Sign(x[1]), sq[1], sq[2]>>

SurdNeg(s) == <<-s[1], s[2], s[3]>>

Ok(v) == [err |-> FALSE, val |-> v]

ZeroDivisionError == [err |-> TRUE, val |-> <<>>]

\* ------------------------------------------------------------ data shapes
AnimationKeyframe(t, p, r, s) ==
    [time |-> t, position |-> p, rotation |-> r, scale |-> s]

BlenderKeyframe(f, l, r, s) ==
    [frame |-> f, location |-> l, rotation_quaternion |-> r, scale |-> s]

\* ------------------------------------------------------------- functions
\* mutation: the components are left in (x, y, z, w) order
convert_quaternion_to_blender_unordered(quat) ==
    <<quat[1], quat[2], quat[3], quat[4]>>

convert_quaternion_to_blender(quat) == <<quat[4], quat[1], quat[2], quat[3]>>

time_to_frame(time_value, rec, tgt, start) ==
    IF rec = 0 THEN ZeroDivisionError
    ELSE LET time_seconds == RDiv(time_value, R(rec))
         IN  Ok(start + Round(RMul(time_seconds, R(tgt))))

\* mutation: the end points are swapped in the interpolation
_lerp_tuple3_swapped(a, b, t) ==
    IF a = None /\ b = None THEN None
    ELSE IF a = None THEN b
    ELSE IF b = None THEN a
    ELSE <<RAdd(b[1], RMul(RSub(a[1], b[1]), t)),
           RAdd(b[2], RMul(RSub(a[2], b[2]), t)),
           RAdd(b[3], RMul(RSub(a[3], b[3]), t))>>

_lerp_tuple3(a, b, t) ==
    IF a = None /\ b = None THEN None
    ELSE IF a = None THEN b
    ELSE IF b = None THEN a
    ELSE <<RAdd(a[1], RMul(RSub(b[1], a[1]), t)),
           RAdd(a[2], RMul(RSub(b[2], a[2]), t)),
           RAdd(a[3], RMul(RSub(b[3], a[3]), t))>>

\* mutation: b is never negated
_nlerp_quat_no_flip(a, b, t) ==
    IF a = None /\ b = None THEN None
    ELSE IF a = None THEN b
    ELSE IF b = None THEN a
    ELSE
      LET av == [i \in 1..4 |-> RootOf(a[i])]
          bv == [i \in 1..4 |-> RootOf(b[i])]
          x == RAdd(av[1], RMul(RSub(bv[1], av[1]), t))
          y == RAdd(av[2], RMul(RSub(bv[2], av[2]), t))
          z == RAdd(av[3], RMul(RSub(bv[3], av[3]), t))
          w == RAdd(av[4], RMul(RSub(bv[4], av[4]), t))
          length2 == RAdd(RAdd(RMul(x, x), RMul(y, y)),
                          RAdd(RMul(z, z), RMul(w, w)))
      IN  IF RLt(R(0), length2)
          THEN <<SurdDiv(x, length2), SurdDiv(y, length2),
                 SurdDiv(z, length2), SurdDiv(w, length2)>>
          ELSE <<Surd(x), Surd(y), Surd(z), Surd(w)>>

_nlerp_quat(a, b, t) ==
    IF a = None /\ b = None THEN None
    ELSE IF a = None THEN b
    ELSE IF b = None THEN a
    ELSE
      LET av == [i \in 1..4 |-> RootOf(a[i])]
          b0 == [i \in 1..4 |-> RootOf(b[i])]
          dot == RAdd(RAdd(RMul(av[1], b0[1]), RMul(av[2], b0[2])),
                      RAdd(RMul(av[3], b0[3]), RMul(av[4], b0[4])))
          bv == IF RLt(dot, R(0))
                THEN [i \in 1..4 |-> RSub(R(0), b0[i])]
                ELSE b0
          x == RAdd(av[1], RMul(RSub(bv[1], av[1]), t))
          y == RAdd(av[2], RMul(RSub(bv[2], av[2]), t))
          z == RAdd(av[3], RMul(RSub(bv[3], av[3]), t))
          w == RAdd(av[4], RMul(RSub(bv[4], av[4]), t))
          length2 == RAdd(RAdd(RMul(x, x), RMul(y, y)),
                          RAdd(RMul(z, z), RMul(w, w)))
      IN  IF RLt(R(0), length2)
          THEN <<SurdDiv(x, length2), SurdDiv(y, length2),
                 SurdDiv(z, length2), SurdDiv(w, length2)>>
          ELSE <<Surd(x), Surd(y), Surd(z), Surd(w)>>

\* sorted(keyframes, key=lambda kf: kf.time): stable, ascending
RECURSIVE InsertByTime(_, _)
InsertByTime(s, kf) ==
    IF s = <<>> THEN <<kf>>
    ELSE IF RLt(kf.time, s[Len(s)].time)
         THEN Append(InsertByTime(SubSeq(s, 1, Len(s) - 1), kf), s[Len(s)])
         ELSE Append(s, kf)

RECURSIVE sorted_by_time(_)
sorted_by_time(kfs) ==
    IF kfs = <<>> THEN <<>>
    ELSE InsertByTime(sorted_by_time(SubSeq(kfs, 1, Len(kfs) - 1)), kfs[Len(kfs)])

\* bisect.bisect_right(a, x), lo and hi 0-based as in the library
RECURSIVE bisect_loop(_, _, _, _)
bisect_loop(a, x, lo, hi) ==
    IF lo < hi
    THEN LET mid == (lo + hi) \div 2
         IN  IF RLt(x, a[mid + 1]) THEN bisect_loop(a, x, lo, mid)
             ELSE bisect_loop(a, x, mid + 1, hi)
    ELSE lo

bisect_right(a, x) == bisect_loop(a, x, 0, Len(a))

\* mutation: the frame at index 0 is not counted
target_frame_count_short(max_time, rec, tgt) ==
    LET duration_seconds == RDiv(max_time, R(rec))
    IN  Trunc(RMul(duration_seconds, R(tgt)))

target_frame_count(max_time, rec, tgt) ==
    LET duration_seconds == RDiv(max_time, R(rec))
    IN  Trunc(RMul(duration_seconds, R(tgt))) + 1

\* mutation: the scale is not copied
clamped_no_scale(kf, target_frame) ==
    AnimationKeyframe(R(target_frame), kf.position, kf.rotation, None)

clamped(kf, target_frame) ==
    AnimationKeyframe(R(target_frame), kf.position, kf.rotation, kf.scale)

\* the body of the loop over target_frame
resample_frame(sorted_kfs, rec, tgt, target_frame) ==
    LET min_time == R(0)
        target_time_seconds == RDiv(R(target_frame), R(tgt))
        target_recording_time ==
            RAdd(min_time, RMul(target_time_seconds, R(rec)))
        all_times == [i \in 1..Len(sorted_kfs) |-> sorted_kfs[i].time]
        idx == bisect_right(all_times, target_recording_time)
    IN  IF idx = 0 THEN clamped(sorted_kfs[1], target_frame)
        ELSE IF idx >= Len(sorted_kfs)
             THEN clamped(sorted_kfs[Len(sorted_kfs)], target_frame)
        ELSE
          LET kf_a == sorted_kfs[idx]
              kf_b == sorted_kfs[idx + 1]
              dt == RSub(kf_b.time, kf_a.time)
              t == IF RLt(R(0), dt)
                   THEN RDiv(RSub(target_recording_time, kf_a.time), dt)
                   ELSE R(0)
          IN  AnimationKeyframe(R(target_frame),
                                _lerp_tuple3(kf_a.position, kf_b.position, t),
                                _nlerp_quat(kf_a.rotation, kf_b.rotation, t),
                                _lerp_tuple3(kf_a.scale, kf_b.scale, t))

\* mutation: equal rates are resampled
passes_through_strict(keyframes, rec, tgt) == keyframes = <<>> \/ tgt > rec

\* mutation: a zero recording rate is never passed through
passes_through_nonzero(keyframes, rec, tgt) ==
    keyframes = <<>> \/ (rec # 0 /\ tgt >= rec)

passes_through(keyframes, rec, tgt) == keyframes = <<>> \/ tgt >= rec

downsample_keyframes(keyframes, rec, tgt) ==
    IF passes_through(keyframes, rec, tgt) THEN Ok(keyframes)
    ELSE
      LET sorted_kfs == sorted_by_time(keyframes) IN
      IF Len(sorted_kfs) < 2 THEN Ok(sorted_kfs)
      ELSE IF rec = 0 THEN ZeroDivisionError
      ELSE
        LET max_time == sorted_kfs[Len(sorted_kfs)].time
            count == target_frame_count(max_time, rec, tgt)
        IN  IF count > 0 /\ tgt = 0 THEN ZeroDivisionError
            ELSE Ok([f \in 1..count |->
                       resample_frame(sorted_kfs, rec, tgt, f - 1)])

frame_of(kf, rec, tgt, start, do_downsample) ==
    IF do_downsample THEN Ok(start + Round(kf.time))
    ELSE time_to_frame(kf.time, rec, tgt, start)

convert_keyframes_to_blender(keyframes, rec, tgt, start, do_downsample) ==
    IF keyframes = <<>> THEN Ok(<<>>)
    ELSE
      LET processed == IF do_downsample
                       THEN downsample_keyframes(keyframes, rec, tgt)
                       ELSE Ok(keyframes)
      IN  IF processed.err THEN ZeroDivisionError
          ELSE IF \E i \in 1..Len(processed.val) :
                    frame_of(processed.val[i], rec, tgt, start, do_downsample).err
               THEN ZeroDivisionError
          ELSE Ok([i \in 1..Len(processed.val) |->
                 LET kf == processed.val[i]
                 IN  BlenderKeyframe(
                       frame_of(kf, rec, tgt, start, do_downsample).val,
                       kf.position,
                       IF kf.rotation # None
                       THEN convert_quaternion_to_blender(kf.rotation)
                       ELSE None,
                       kf.scale)])

\* the nested loops of get_animation_range, max_time starting at 0
RECURSIVE max_time_kfs(_, _)
max_time_kfs(kfs, acc) ==
    IF kfs = <<>> THEN acc
    ELSE max_time_kfs(Tail(kfs), RMax(acc, Head(kfs).time))

\* mutation: max_time is reset at every node
RECURSIVE max_time_nodes_reset(_, _)
max_time_nodes_reset(ns, acc) ==
    IF ns = <<>> THEN acc
    ELSE max_time_nodes_reset(Tail(ns), max_time_kfs(Head(ns).keyframes, R(0)))

RECURSIVE max_time_nodes(_, _)
max_time_nodes(ns, acc) ==
    IF ns = <<>> THEN acc
    ELSE max_time_nodes(Tail(ns), max_time_kfs(Head(ns).keyframes, acc))

get_animation_range(ns, rec, tgt, start) ==
    LET min_frame == start
        max_time == max_time_nodes(ns, R(0))
    IN  IF rec = 0 THEN ZeroDivisionError
        ELSE LET duration_seconds == RDiv(max_time, R(rec))
             IN  Ok(<<min_frame,
                      start + Round(RMul(duration_seconds, R(tgt)))>>)

\* ------------------------------------------------------------ input sets
SeqUpTo(S, n) == UNION {[1..k -> S] : k \in 0..n}

Vec3(x, y, z) == <<R(x), R(y), R(z)>>

Quat(x, y, z, w) == <<Surd(x), Surd(y), Surd(z), Surd(w)>>

QuatNeg(q) == [i \in 1..4 |-> SurdNeg(q[i])]

\* channel values carried by the keyframes of a track: all present (two
\* different settings) or only scale present
Channels ==
    { <<Vec3(0, 0, 0), Quat(R(0), R(0), R(0), R(1)), Vec3(1, 1, 1)>>,
      <<Vec3(10, 2, -4), Quat(R(1), R(0), R(0), R(0)), Vec3(2, 1, 3)>>,
      <<None, None, Vec3(1, 1, 1)>> }

TrackKeyframes ==
    { AnimationKeyframe(R(t), c[1], c[2], c[3]) : t \in 0..MaxTime, c \in Channels }

BareKeyframes ==
    { AnimationKeyframe(R(t), None, None, None) : t \in 0..MaxSceneTime }

SceneNode(kfs) == [keyframes |-> kfs]

SceneNodes == {SceneNode(<<>>)} \cup { SceneNode(<<kf>>) : kf \in BareKeyframes }

Rates == 1..MaxRate

StartFrames == {0, 1}

UnitQuats ==
    LET pos == { Quat(R(0), R(0), R(0), R(1)), Quat(R(1), R(0), R(0), R(0)),
                 Quat(Rat(3, 5), R(0), Rat(4, 5), R(0)),
                 Quat(Rat(1, 2), Rat(1, 2), Rat(1, 2), Rat(1, 2)) }
    IN  pos \cup { QuatNeg(q) : q \in pos }

Params == { Rat(0, 1), Rat(1, 4), Rat(1, 2), Rat(3, 4), Rat(1, 1) }

\* the scenarios of the documentation
ScenarioTrack ==
    << SceneNode(<< AnimationKeyframe(R(0), Vec3(0, 0, 0), None, None),
                    AnimationKeyframe(R(1000), Vec3(10, 0, 0), None, None) >>) >>

ScenarioScene ==
    << SceneNode(<< AnimationKeyframe(R(500), None, None, None),
                    AnimationKeyframe(R(2000), None, None, None) >>),
       SceneNode(<< AnimationKeyframe(R(1200), None, None, None) >>) >>

\* --------------------------------------------------------- state machine
NoCall ==
    /\ pc = "init"
    /\ node = 0
    /\ start_frame = 0
    /\ downsample = TRUE
    /\ ret = Ok(<<>>)

NoQuats == qa = None /\ qb = None /\ qt = R(0)

\* one animated track with sparse channels
InitTrack ==
    /\ nodes \in { <<SceneNode(k)>> : k \in SeqUpTo(TrackKeyframes, MaxLen) }
    /\ recording_fps \in Rates
    /\ target_fps \in Rates
    /\ NoQuats

\* several nodes carrying times only, each with at most one keyframe (nodes
\* of several keyframes are the tracks above and the documented scene)
InitScene ==
    /\ nodes \in SeqUpTo(SceneNodes, MaxNodes)
    /\ recording_fps \in Rates
    /\ target_fps \in Rates
    /\ NoQuats

\* arguments of _nlerp_quat
InitQuats ==
    /\ nodes = <<>>
    /\ recording_fps = 1
    /\ target_fps = 1
    /\ qa \in UnitQuats \cup {None}
    /\ qb \in UnitQuats \cup {None}
    /\ qt \in Params

InitScenario ==
    /\ nodes \in {ScenarioTrack, ScenarioScene}
    /\ recording_fps = 1000
    /\ target_fps = 30
    /\ NoQuats

Init == NoCall /\ (InitTrack \/ InitScene \/ InitQuats \/ InitScenario)

\* a track and a zero recording rate, the target rate of either sign
InitZero ==
    /\ NoCall
    /\ nodes \in { <<SceneNode(k)>> : k \in SeqUpTo(TrackKeyframes, MaxLen) }
    /\ recording_fps = 0
    /\ target_fps \in (-1)..MaxRate
    /\ NoQuats

Inputs == <<nodes, recording_fps, target_fps, qa, qb, qt>>

CallDownsample ==
    /\ pc = "init"
    /\ \E i \in 1..Len(nodes) :
         /\ node' = i
         /\ ret' = downsample_keyframes(nodes[i].keyframes,
                                        recording_fps, target_fps)
    /\ pc' = "downsample"
    /\ UNCHANGED <<Inputs, start_frame, downsample>>

CallConvert ==
    /\ pc = "init"
    /\ \E i \in 1..Len(nodes), s \in StartFrames, d \in BOOLEAN :
         /\ node' = i
         /\ start_frame' = s
         /\ downsample' = d
         /\ ret' = convert_keyframes_to_blender(nodes[i].keyframes,
                       recording_fps, target_fps, s, d)
    /\ pc' = "convert"
    /\ UNCHANGED Inputs

CallRange ==
    /\ pc = "init"
    /\ \E s \in StartFrames :
         /\ start_frame' = s
         /\ ret' = get_animation_range(nodes, recording_fps, target_fps, s)
    /\ pc' = "range"
    /\ UNCHANGED <<Inputs, node, downsample>>

CallNlerp ==
    /\ pc = "init"
    /\ ret' = Ok(_nlerp_quat(qa, qb, qt))
    /\ pc' = "nlerp"
    /\ UNCHANGED <<Inputs, node, start_frame, downsample>>

Next == CallDownsample \/ CallConvert \/ CallRange \/ CallNlerp

Spec == Init /\ [][Next]_vars

SpecZero == InitZero /\ [][Next]_vars

\* ------------------------------------------------------------ properties
\* the keyframes the last call of downsample / convert was given
Track == nodes[node].keyframes

Floor(q) == q[1] \div q[2]

\* source time of output frame f: (f / target_rate) * recording_rate
SourceTime(f) == RMul(RDiv(R(f), R(target_fps)), R(recording_fps))

\* the keyframe with the least time (the first of them in list order) and
\* the one with the greatest time (the last of them in list order)
Earliest(kfs) ==
    kfs[CHOOSE i \in 1..Len(kfs) : \A j \in 1..Len(kfs) :
          \/ RLt(kfs[i].time, kfs[j].time)
          \/ (kfs[i].time = kfs[j].time /\ i <= j)]

Latest(kfs) ==
    kfs[CHOOSE i \in 1..Len(kfs) : \A j \in 1..Len(kfs) :
          \/ RLt(kfs[j].time, kfs[i].time)
          \/ (kfs[i].time = kfs[j].time /\ j <= i)]

SameChannels(out, kf) ==
    /\ out.position = kf.position
    /\ out.rotation = kf.rotation
    /\ out.scale = kf.scale

Resampled ==
    /\ pc = "downsample"
    /\ Len(Track) >= 2
    /\ target_fps < recording_fps

\* C1: with target_rate >= recording_rate, downsample_keyframes returns the
\* input list itself: same keyframes, same order, nothing sorted or changed.
C1_PassThrough ==
    (pc = "downsample" /\ target_fps >= recording_fps)
        => (~ret.err /\ ret.val = Track)

C1_Witness ==
    /\ pc = "downsample"
    /\ target_fps >= recording_fps
    /\ Len(Track) >= 2
    /\ RLt(Track[2].time, Track[1].time)
    /\ ret.val = Track

\* C2: a resampled track of at least 2 keyframes has exactly
\* floor((last.time / recording_rate) * target_rate) + 1 keyframes, last being
\* the keyframe of greatest time, and the keyframe at index f has time f.
C2_LengthAndTimeBase ==
    Resampled =>
        LET n == Floor(RMul(RDiv(Latest(Track).time, R(recording_fps)),
                            R(target_fps))) + 1
        IN  /\ ~ret.err
            /\ Len(ret.val) = n
            /\ \A f \in 0..(n - 1) : ret.val[f + 1].time = R(f)

C2_Witness ==
    /\ Resampled
    /\ RLt(R(0), Earliest(Track).time)
    /\ Len(ret.val) >= 3
    /\ ret.val[3].time = R(2)

\* C4: in a resampled track, a frame whose source time is before the
\* earliest keyframe carries exactly that keyframe's position, rotation and
\* scale (absent stays absent); a frame whose source time is after the latest
\* keyframe carries exactly the latest keyframe's channels.
C4_BoundaryClamp ==
    (Resampled /\ ~ret.err) =>
        \A f \in 0..(Len(ret.val) - 1) :
            /\ RLt(SourceTime(f), Earliest(Track).time)
                   => SameChannels(ret.val[f + 1], Earliest(Track))
            /\ RLt(Latest(Track).time, SourceTime(f))
                   => SameChannels(ret.val[f + 1], Latest(Track))

C4_Witness ==
    /\ Resampled
    /\ Len(ret.val) >= 2
    /\ RLt(SourceTime(1), Earliest(Track).time)
    /\ Earliest(Track) = Track[2]
    /\ Track[2].position # None
    /\ Track[2].scale # Track[1].scale
    /\ SameChannels(ret.val[2], Track[2])

Before(kfs, s) ==
    kfs[CHOOSE i \in 1..Len(kfs) :
          /\ RLe(kfs[i].time, s)
          /\ \A j \in 1..Len(kfs) : RLe(kfs[j].time, s) =>
                \/ RLt(kfs[j].time, kfs[i].time)
                \/ (kfs[j].time = kfs[i].time /\ j <= i)]

After(kfs, s) ==
    kfs[CHOOSE i \in 1..Len(kfs) :
          /\ RLt(s, kfs[i].time)
          /\ \A j \in 1..Len(kfs) : RLt(s, kfs[j].time) =>
                \/ RLt(kfs[i].time, kfs[j].time)
                \/ (kfs[j].time = kfs[i].time /\ i <= j)]

Interior(f) ==
    /\ RLe(Earliest(Track).time, SourceTime(f))
    /\ RLt(SourceTime(f), Latest(Track).time)

Fraction(f) ==
    RDiv(RSub(SourceTime(f), Before(Track, SourceTime(f)).time),
         RSub(After(Track, SourceTime(f)).time,
              Before(Track, SourceTime(f)).time))

Linear(a, b, t) ==
    CASE a = None /\ b = None -> None
      [] a = None /\ b # None -> b
      [] a # None /\ b = None -> a
      [] OTHER -> [i \in 1..3 |-> RAdd(a[i], RMul(RSub(b[i], a[i]), t))]

\* C9: in a resampled track, a frame whose source time s lies in
\* [first.time, last.time) has position and scale interpolated linearly
\* between kf_a, the last keyframe in time order with time <= s, and kf_b, the
\* next one, at t = (s - kf_a.time) / (kf_b.time - kf_a.time); a channel only
\* one side has is copied from that side, a channel neither has is absent.
\* The documented track (0,0,0) at 0 and (10,0,0) at 1000, rates 1000 and 30,
\* gives (0,0,0), (5,0,0), (10,0,0) at frames 0, 15, 30.
C9_InteriorInterpolation ==
    /\ (Resampled /\ ~ret.err) =>
         \A f \in 0..(Len(ret.val) - 1) : Interior(f) =>
            LET a == Before(Track, SourceTime(f))
                b == After(Track, SourceTime(f))
            IN  /\ ret.val[f + 1].position
                     = Linear(a.position, b.position, Fraction(f))
                /\ ret.val[f + 1].scale
                     = Linear(a.scale, b.scale, Fraction(f))
    /\ (pc = "downsample" /\ nodes = ScenarioTrack) =>
         /\ Len(ret.val) = 31
         /\ ret.val[1].position = Vec3(0, 0, 0)
         /\ ret.val[16].position = Vec3(5, 0, 0)
         /\ ret.val[31].position = Vec3(10, 0, 0)

C9_Witness ==
    /\ Resampled
    /\ \E f \in 0..(Len(ret.val) - 1) :
         /\ Interior(f)
         /\ RLt(Before(Track, SourceTime(f)).time, SourceTime(f))
         /\ Before(Track, SourceTime(f)).position # None
         /\ After(Track, SourceTime(f)).position # None
         /\ Before(Track, SourceTime(f)).position
              # After(Track, SourceTime(f)).position
         /\ ret.val[f + 1].position # Before(Track, SourceTime(f)).position
         /\ ret.val[f + 1].position # After(Track, SourceTime(f)).position

AllTimes ==
    UNION { { nodes[i].keyframes[j].time : j \in 1..Len(nodes[i].keyframes) } :
            i \in 1..Len(nodes) }

GreatestTime ==
    IF AllTimes = {} THEN R(0)
    ELSE CHOOSE m \in AllTimes : \A x \in AllTimes : RLe(x, m)

\* C5: animation_range with a non-zero recording rate returns
\* (start_frame, start_frame + round((max_time / recording_rate) * target_rate)),
\* max_time the greatest time of any keyframe of any node (0 when there is no
\* keyframe); times up to 2000 at rates 1000 and 30 from frame 0 give (0, 60).
C5_AnimationRange ==
    /\ (pc = "range" /\ recording_fps # 0) =>
         /\ ~ret.err
         /\ ret.val = << start_frame,
                         start_frame
                           + Round(RMul(RDiv(GreatestTime, R(recording_fps)),
                                        R(target_fps))) >>
    /\ (pc = "range" /\ nodes = ScenarioScene /\ start_frame = 0) =>
         ret.val = <<0, 60>>

C5_Witness ==
    /\ pc = "range"
    /\ Len(nodes) = 2
    /\ start_frame = 1
    /\ nodes[1].keyframes # <<>>
    /\ nodes[2].keyframes # <<>>
    /\ nodes[1].keyframes[1].time = R(2)
    /\ nodes[2].keyframes[1].time = R(1)
    /\ recording_fps = 2
    /\ target_fps = 3
    /\ ret.val = <<1, 4>>

FromBlender(q) == <<q[2], q[3], q[4], q[1]>>

\* C7: convert_keyframes with downsample off yields one converted keyframe
\* per input keyframe, in order, location = position, scale = scale, rotation
\* (x,y,z,w) repacked as (w,x,y,z), absent channels absent; unpacking the
\* converted rotation with (w,x,y,z) -> (x,y,z,w) gives the original back.
C7_Repack ==
    (pc = "convert" /\ ~downsample /\ recording_fps # 0) =>
        /\ ~ret.err
        /\ Len(ret.val) = Len(Track)
        /\ \A i \in 1..Len(Track) :
             LET kf == Track[i]
                 out == ret.val[i]
             IN  /\ out.location = kf.position
                 /\ out.scale = kf.scale
                 /\ (kf.rotation = None) => (out.rotation_quaternion = None)
                 /\ (kf.rotation # None) =>
                      /\ out.rotation_quaternion
                           = <<kf.rotation[4], kf.rotation[1],
                               kf.rotation[2], kf.rotation[3]>>
                      /\ FromBlender(out.rotation_quaternion) = kf.rotation

C7_Witness ==
    /\ pc = "convert"
    /\ ~downsample
    /\ Len(Track) = 2
    /\ Track[1].rotation = None
    /\ Track[2].rotation = Quat(R(1), R(0), R(0), R(0))
    /\ ret.val[2].rotation_quaternion = Quat(R(0), R(1), R(0), R(0))
    /\ ret.val[1].rotation_quaternion = None
    /\ ret.val[1].location = None

\* C8: for a unit quaternion q and t in [0, 1], interpolating from q to -q
\* gives the same rotation as interpolating from q to q.
C8_ShortestPath ==
    (pc = "nlerp" /\ qa \in UnitQuats /\ qb = QuatNeg(qa)
       /\ RLe(R(0), qt) /\ RLe(qt, R(1)))
        => ret.val = _nlerp_quat(qa, qa, qt)

C8_Witness ==
    /\ pc = "nlerp"
    /\ qa = Quat(Rat(3, 5), R(0), Rat(4, 5), R(0))
    /\ qb = QuatNeg(qa)
    /\ qt = Rat(3, 4)
    /\ ret.val = qa

\* C6: a call of downsample_keyframes with recording_rate = 0 on a non-empty
\* list ends in a division error and returns nothing, whatever the target
\* rate.
C6_ZeroRateIsError ==
    (pc = "downsample" /\ recording_fps = 0 /\ Track # <<>>) => ret.err

\* C6 as amended: with recording_rate = 0 the call ends in a division error
\* exactly when target_rate < 0 and the list has at least 2 keyframes; with
\* target_rate >= 0 it returns the input list unchanged.
C6_ZeroRateAmended ==
    (pc = "downsample" /\ recording_fps = 0 /\ Track # <<>>) =>
        /\ ret.err <=> (target_fps < 0 /\ Len(Track) >= 2)
        /\ (target_fps >= 0) => (ret = Ok(Track))

C6_Witness ==
    /\ pc = "downsample"
    /\ recording_fps = 0
    /\ target_fps = 3
    /\ Len(Track) = 2
    /\ ret = Ok(Track)

\* C3: a converted keyframe's frame is start_frame + round(time) of the
\* resampled keyframe when resampling actually ran (downsample set, at least
\* 2 keyframes, target_rate < recording_rate); in every other case it is
\* time_to_frame of the original time,
\* start_frame + round((time / recording_rate) * target_rate).
C3_FrameNumbering ==
    (pc = "convert" /\ ~ret.err) =>
        IF downsample /\ Len(Track) >= 2 /\ target_fps < recording_fps
        THEN LET rs == downsample_keyframes(Track, recording_fps, target_fps).val
             IN  /\ Len(ret.val) = Len(rs)
                 /\ \A i \in 1..Len(rs) :
                      ret.val[i].frame = start_frame + Round(rs[i].time)
        ELSE /\ Len(ret.val) = Len(Track)
             /\ \A i \in 1..Len(Track) :
                  ret.val[i].frame
                    = start_frame
                        + Round(RMul(RDiv(Track[i].time, R(recording_fps)),
                                     R(target_fps)))

\* C10: with positive rates, every frame convert_keyframes produces for the
\* keyframes of a node lies within the range animation_range returns for the
\* node list with the same rates and start_frame.
C10_RangeCoversFrames ==
    (pc = "convert" /\ recording_fps > 0 /\ target_fps > 0 /\ ~ret.err) =>
        LET range == get_animation_range(nodes, recording_fps, target_fps,
                                         start_frame).val
        IN  \A i \in 1..Len(ret.val) :
              /\ range[1] <= ret.val[i].frame
              /\ ret.val[i].frame <= range[2]

====
